---------------------------- MODULE Spec2Model ----------------------------
(***************************************************************************)
(* Model of csim.c, the set-associative cache simulator with counter-based *)
(* LRU replacement, and of transpose_submit of trans.c.  main is modelled  *)
(* from its first statement: the getopt loop, the checks of the flags, the *)
(* construction of the cache, fopen, and the replay loop, of which one     *)
(* action is one iteration (the fscanf call together with the loop body).  *)
(* Spec, SpecFile and SpecDecode start where the replay loop is entered,   *)
(* SpecMain at the first statement of main, SpecTrans at the call of       *)
(* transpose_submit.                                                       *)
(***************************************************************************)
EXTENDS Integers, Sequences, FiniteSets, TLC

(***************************************************************************)
(* Bounds of the model.                                                    *)
(***************************************************************************)
MaxS == 1          \* largest number of set-index bits (-s)
MaxE == 2          \* largest associativity (-E)
MaxB == 1          \* largest number of block-offset bits (-b)
MaxTag == 2        \* tags 0..MaxTag occur in the addresses of the trace
MaxLines == 4      \* the trace file holds at most MaxLines lines
MaxFileLines == 2  \* length of the files enumerated whole by SpecFile
MainLines == 1     \* the trace file of SpecMain holds at most MainLines lines
LongLongBits == 8  \* width of long long in the model (64 in the build): address and tag

VARIABLES
    s, b, assoc,               \* configuration: atoi(sname), atoi(bname), atoi(Ename)
    cache,                     \* cache[i][j]: line j of set i (tag, valid, lru_cntr)
    hits, misses, evictions,   \* the counters of main
    access_type, address,      \* the locals fscanf assigns
    ahead,                     \* characters of the trace read from the file and not yet consumed
    more,                      \* at most this many further lines are still in the file
    pc,                        \* "getopt", "check", "build", "open": the statements before the loop;
                               \* "loop": in the replay loop; "done": summary printed, main returned 0;
                               \* "exit": main returned early; "abort": assert failed; "crash": killed by a signal
    outcome,                   \* history: what the last iteration printed ("hit", "miss", "miss eviction", "none")
    evicted,                   \* history: the set of tags (0 or 1) overwritten by the last iteration's eviction
    order,                     \* history: per set, the tags accessed so far, most recently accessed first
    mtf,                       \* reference model: per set, a move-to-front list of at most assoc tags
    nData, nModify,            \* history: entries replayed as data accesses / as 'M'
    cycle, cyclic,             \* history: the first assoc+1 accesses; whether the accesses so far repeat them in order
    expected,                  \* history (SpecFile): counters of the file replayed line by line, malformed lines dropped
    argv, optind,              \* the command line (argv[1], argv[2], ...) and getopt's index into it
    sflag, Eflag, bflag, tflag, err_flag,   \* the flags the getopt loop sets
    sname, Ename, bname, trace_file,        \* the option arguments the getopt loop keeps
    tracefp,                   \* the stream fopen returned: "NULL" or the name of the open file
    ret,                       \* the set holding the value main has returned (empty while it runs)
    M, N, A, B,                \* transpose_submit: its arguments, A[i][j] and B[j][i] indexed from 0
    frame,                     \* transpose_submit: its locals (block_dim, i, j, ib, jb, idx1, idx2, diag_flag)
    tpc                        \* transpose_submit: the statement it is at ("idle" in the runs of main)

\* the locals of main that only the statements before the replay loop assign
startup == <<argv, optind, sflag, Eflag, bflag, tflag, err_flag, sname, Ename,
             bname, trace_file, tracefp>>

\* the state of transpose_submit
transpose == <<M, N, A, B, frame, tpc>>

vars == <<s, b, assoc, cache, hits, misses, evictions, access_type, address,
          ahead, more, pc, outcome, evicted, order, mtf, nData, nModify,
          cycle, cyclic, expected, startup, ret, transpose>>

NULL == -1         \* the null pointer cache_lookup returns on a hit
EOF == -1          \* what fscanf returns on an input failure before the first conversion
NoChar == "?"      \* access_type before the first fscanf call

(***************************************************************************)
(* Arithmetic of main: 1 << s, address >> n, x & INDEX_MASK.  address and  *)
(* tag are signed (long long): x >> n of a negative x is the arithmetic    *)
(* shift of the build, the quotient rounded down, and x & INDEX_MASK works *)
(* on the two's complement bits of x (x % 2 is the low bit, x \div 2 the   *)
(* other bits).                                                            *)
(***************************************************************************)
RECURSIVE Shl1(_)
Shl1(n) == IF n = 0 THEN 1 ELSE 2 * Shl1(n - 1)

Shr(x, n) == x \div Shl1(n)

RECURSIVE BitAnd(_, _)
BitAnd(x, y) ==
    IF x = 0 \/ y = 0 THEN 0
    ELSE 2 * BitAnd(x \div 2, y \div 2) + (IF x % 2 = 1 /\ y % 2 = 1 THEN 1 ELSE 0)

\* the unsigned value u < 2^LongLongBits that %llx reads, stored in the signed
\* long long address (two's complement)
LongLong(u) ==
    IF u >= Shl1(LongLongBits - 1) THEN u - Shl1(LongLongBits) ELSE u

num_sets == Shl1(s)
INDEX_MASK == Shl1(s) - 1

set_index(a) == BitAnd(Shr(a, b), INDEX_MASK)
tag(a) == Shr(a, s + b)


(***************************************************************************)
(* cache_line, and the initialisation loop of main: every line invalid,    *)
(* lru_cntr = j; malloc leaves the tag whatever the memory held (garbage). *)
(***************************************************************************)
cache_line(t, v, l) == [tag |-> t, valid |-> v, lru_cntr |-> l]

InitialCache(n, e, garbage) ==
    [i \in 0..(n - 1) |-> [j \in 0..(e - 1) |-> cache_line(garbage, 0, j)]]

(***************************************************************************)
(* update_lru_cntr: lines below the accessed counter move up by one, the   *)
(* accessed line gets 0.  The accessed counter is passed by value, so each *)
(* line is decided by its own old counter.                                 *)
(***************************************************************************)
\* "<=" for "<": the accessed line is incremented too and never reset
update_lru_cntr_le(set, lru_cntr_accessed) ==
    [i \in DOMAIN set |->
        IF set[i].lru_cntr <= lru_cntr_accessed
        THEN [set[i] EXCEPT !.lru_cntr = @ + 1]
        ELSE set[i]]

\* every line but the accessed one is incremented, also those above it
update_lru_cntr_all(set, lru_cntr_accessed) ==
    [i \in DOMAIN set |->
        IF set[i].lru_cntr = lru_cntr_accessed
        THEN [set[i] EXCEPT !.lru_cntr = 0]
        ELSE [set[i] EXCEPT !.lru_cntr = @ + 1]]

update_lru_cntr(set, lru_cntr_accessed) ==
    [i \in DOMAIN set |->
        IF set[i].lru_cntr < lru_cntr_accessed
        THEN [set[i] EXCEPT !.lru_cntr = @ + 1]
        ELSE IF set[i].lru_cntr = lru_cntr_accessed
             THEN [set[i] EXCEPT !.lru_cntr = 0]
             ELSE set[i]]

(***************************************************************************)
(* cache_lookup.  The result is the set after the lru update and the index *)
(* of the line to replace (NULL on a hit); failed is the assert of the     *)
(* full-set branch.                                                        *)
(***************************************************************************)
\* the tag compared without looking at the valid flag
Matching_novalid(set, t) == {i \in DOMAIN set : set[i].tag = t}

\* the first loop started at line 1: line 0 is never compared
Matching_from1(set, t) == {i \in DOMAIN set \ {0} : set[i].valid # 0 /\ set[i].tag = t}

\* the lines of the first loop's test: valid and holding the tag
Matching(set, t) == {i \in DOMAIN set : set[i].valid # 0 /\ set[i].tag = t}

\* the lines of the second loop's test: not valid
Empty(set) == {i \in DOMAIN set : set[i].valid = 0}

Min(S) == CHOOSE x \in S : \A y \in S : x <= y

\* the second loop keeping the smallest lru_cntr ("<" for ">")
lru_line_smallest(set) ==
    Min({i \in DOMAIN set : \A j \in DOMAIN set : set[i].lru_cntr <= set[j].lru_cntr})

\* the second loop over a full set: the first line holding the largest lru_cntr
lru_line(set) ==
    Min({i \in DOMAIN set : \A j \in DOMAIN set : set[j].lru_cntr <= set[i].lru_cntr})

\* the hit branch returns without update_lru_cntr (first in, first out)
cache_lookup_fifo(set, e, t) ==
    IF Matching(set, t) # {}
    THEN [set |-> set, line |-> NULL, failed |-> FALSE]
    ELSE IF Empty(set) # {}
    THEN [set |-> update_lru_cntr(set, set[Min(Empty(set))].lru_cntr),
          line |-> Min(Empty(set)), failed |-> FALSE]
    ELSE IF set[lru_line(set)].lru_cntr # e - 1
    THEN [set |-> set, line |-> lru_line(set), failed |-> TRUE]
    ELSE [set |-> update_lru_cntr(set, e - 1),
          line |-> lru_line(set), failed |-> FALSE]

\* the empty-slot branch returns without update_lru_cntr
cache_lookup_nofill(set, e, t) ==
    IF Matching(set, t) # {}
    THEN [set |-> update_lru_cntr(set, set[Min(Matching(set, t))].lru_cntr),
          line |-> NULL, failed |-> FALSE]
    ELSE IF Empty(set) # {}
    THEN [set |-> set, line |-> Min(Empty(set)), failed |-> FALSE]
    ELSE IF set[lru_line(set)].lru_cntr # e - 1
    THEN [set |-> set, line |-> lru_line(set), failed |-> TRUE]
    ELSE [set |-> update_lru_cntr(set, e - 1),
          line |-> lru_line(set), failed |-> FALSE]

cache_lookup(set, e, t) ==
    IF Matching(set, t) # {}
    THEN [set |-> update_lru_cntr(set, set[Min(Matching(set, t))].lru_cntr),
          line |-> NULL, failed |-> FALSE]
    ELSE IF Empty(set) # {}
    THEN [set |-> update_lru_cntr(set, set[Min(Empty(set))].lru_cntr),
          line |-> Min(Empty(set)), failed |-> FALSE]
    ELSE IF set[lru_line(set)].lru_cntr # e - 1
    THEN [set |-> set, line |-> lru_line(set), failed |-> TRUE]
    ELSE [set |-> update_lru_cntr(set, e - 1),
          line |-> lru_line(set), failed |-> FALSE]

(***************************************************************************)
(* The body of the replay loop for a data reference: decode, look up,      *)
(* count, place.  st holds cache, hits, misses, evictions.                 *)
(***************************************************************************)
\* the tag written to every line of the set
Replace_all(set, line, t) == [k \in DOMAIN set |-> [set[k] EXCEPT !.tag = t, !.valid = 1]]

Replace(set, line, t) == [set EXCEPT ![line] = [@ EXCEPT !.tag = t, !.valid = 1]]

\* the hits++ of an 'M' reference left out
Access_noM(st, e, type, a) ==
    LET i == set_index(a)
        t == tag(a)
        r == cache_lookup(st.cache[i], e, t)
        hit == r.line = NULL
        evict == ~hit /\ r.set[r.line].valid # 0
    IN  [cache     |-> [st.cache EXCEPT ![i] = IF hit THEN r.set ELSE Replace(r.set, r.line, t)],
         hits      |-> st.hits + (IF hit THEN 1 ELSE 0),
         misses    |-> st.misses + (IF hit THEN 0 ELSE 1),
         evictions |-> st.evictions + (IF evict THEN 1 ELSE 0),
         printed   |-> IF hit THEN "hit" ELSE IF evict THEN "miss eviction" ELSE "miss",
         victim    |-> IF evict THEN {r.set[r.line].tag} ELSE {},
         failed    |-> r.failed]

\* evictions++ on every miss (the test of the line's valid flag left out)
Access_evictAlways(st, e, type, a) ==
    LET i == set_index(a)
        t == tag(a)
        r == cache_lookup(st.cache[i], e, t)
        hit == r.line = NULL
        evict == ~hit
    IN  [cache     |-> [st.cache EXCEPT ![i] = IF hit THEN r.set ELSE Replace(r.set, r.line, t)],
         hits      |-> st.hits + (IF hit THEN 1 ELSE 0) + (IF type = "M" THEN 1 ELSE 0),
         misses    |-> st.misses + (IF hit THEN 0 ELSE 1),
         evictions |-> st.evictions + (IF evict THEN 1 ELSE 0),
         printed   |-> IF hit THEN "hit" ELSE IF evict THEN "miss eviction" ELSE "miss",
         victim    |-> IF evict THEN {r.set[r.line].tag} ELSE {},
         failed    |-> r.failed]

Access(st, e, type, a) ==
    LET i == set_index(a)
        t == tag(a)
        r == cache_lookup(st.cache[i], e, t)
        hit == r.line = NULL
        evict == ~hit /\ r.set[r.line].valid # 0
    IN  [cache     |-> [st.cache EXCEPT ![i] = IF hit THEN r.set ELSE Replace(r.set, r.line, t)],
         hits      |-> st.hits + (IF hit THEN 1 ELSE 0) + (IF type = "M" THEN 1 ELSE 0),
         misses    |-> st.misses + (IF hit THEN 0 ELSE 1),
         evictions |-> st.evictions + (IF evict THEN 1 ELSE 0),
         printed   |-> IF hit THEN "hit" ELSE IF evict THEN "miss eviction" ELSE "miss",
         victim    |-> IF evict THEN {r.set[r.line].tag} ELSE {},
         failed    |-> r.failed]

(***************************************************************************)
(* The trace file as fscanf sees it: a sequence of characters.             *)
(* Fscanf(in) is fscanf(tracefp, " %c %llx %*c %*d", &access_type,         *)
(* &address) on the unread input in: ret is its return value, used the     *)
(* number of characters it consumes, and starved says that it ran to the   *)
(* end of in, so that the answer is the one given when the file ends       *)
(* there.  (A sign or a 0x prefix of the number is not modelled: the       *)
(* traces below hold neither.)                                             *)
(***************************************************************************)
HexChars == <<"0", "1", "2", "3", "4", "5", "6", "7", "8", "9", "a", "b", "c", "d", "e", "f">>

IsSpace(c) == c \in {" ", "\n"}
IsHex(c) == \E k \in 1..16 : HexChars[k] = c
IsDigit(c) == \E k \in 1..10 : HexChars[k] = c
HexValue(c) == (CHOOSE k \in 1..16 : HexChars[k] = c) - 1

\* white space in a format: skip any amount of white space; the index of the next other character
RECURSIVE SkipSpace(_, _)
SkipSpace(in, i) ==
    IF i <= Len(in) /\ IsSpace(in[i]) THEN SkipSpace(in, i + 1) ELSE i

\* %llx: the longest run of hex digits from i, and its value
RECURSIVE ScanHex(_, _, _)
ScanHex(in, i, acc) ==
    IF i <= Len(in) /\ IsHex(in[i])
    THEN ScanHex(in, i + 1, 16 * acc + HexValue(in[i]))
    ELSE [pos |-> i, val |-> acc]

\* %*d: the longest run of decimal digits from i
RECURSIVE SkipDigits(_, _)
SkipDigits(in, i) ==
    IF i <= Len(in) /\ IsDigit(in[i]) THEN SkipDigits(in, i + 1) ELSE i

Scanned(r, u, starved, c, a) ==
    [ret |-> r, used |-> u, starved |-> starved, access_type |-> c, address |-> a]

Fscanf(in) ==
    LET n == Len(in)
        p1 == SkipSpace(in, 1)                    \* " %c"
        p2 == SkipSpace(in, p1 + 1)               \* " %llx"
        h  == ScanHex(in, p2, 0)
        a  == LongLong(h.val)                     \* the value stored in the long long
        p3 == SkipSpace(in, h.pos)                \* " %*c"
        p4 == SkipSpace(in, p3 + 1)               \* " %*d"
        p5 == SkipDigits(in, p4)
    IN  IF p1 > n THEN Scanned(EOF, n, TRUE, NoChar, 0)
        ELSE IF p2 > n THEN Scanned(1, n, TRUE, in[p1], 0)
        ELSE IF ~IsHex(in[p2]) THEN Scanned(1, p2 - 1, FALSE, in[p1], 0)
        ELSE IF h.pos > n \/ p3 > n \/ p4 > n THEN Scanned(2, n, TRUE, in[p1], a)
        ELSE IF ~IsDigit(in[p4]) THEN Scanned(2, p4 - 1, FALSE, in[p1], a)
        ELSE IF p5 > n THEN Scanned(2, n, TRUE, in[p1], a)
        ELSE Scanned(2, p5 - 1, FALSE, in[p1], a)

(***************************************************************************)
(* The lines a trace file may hold (the input of the run).  A line is      *)
(* "<kind> <hex address>,<size>\n"; the malformed shapes are a line whose  *)
(* address is no hex number ("z") and a line without ",<size>".  Kinds are *)
(* I, L, S, M and a letter that is none of them (X).  The addresses are    *)
(* the first byte of the block of every set and tag 0..MaxTag, and the     *)
(* last byte of the blocks of tag 0.                                       *)
(***************************************************************************)
Kinds == {"I", "L", "S", "M"}
Shapes == {"ok", "badaddr", "nosize"}
Size == 8

RECURSIVE ToHex(_)
ToHex(n) == IF n < 16 THEN <<HexChars[n + 1]>> ELSE ToHex(n \div 16) \o <<HexChars[(n % 16) + 1]>>

RECURSIVE ToDec(_)
ToDec(n) == IF n < 10 THEN <<HexChars[n + 1]>> ELSE ToDec(n \div 10) \o <<HexChars[(n % 10) + 1]>>

Addresses ==
    {(t * Shl1(s + b)) + (i * Shl1(b)) : t \in 0..MaxTag, i \in 0..(num_sets - 1)}
    \cup {(i * Shl1(b)) + (Shl1(b) - 1) : i \in 0..(num_sets - 1)}

TraceLine(shape, kind, a) == [shape |-> shape, kind |-> kind, address |-> a]

TraceLines ==
    {TraceLine("ok", k, a) : k \in Kinds, a \in Addresses}
    \cup {TraceLine("ok", "X", 0), TraceLine("nosize", "L", 0), TraceLine("badaddr", "L", 0)}

Text(l) ==
    <<l.kind, " ">>
    \o (IF l.shape = "badaddr" THEN <<"z">> ELSE ToHex(l.address))
    \o (IF l.shape = "nosize" THEN <<>> ELSE <<",">> \o ToDec(Size))
    \o <<"\n">>

RECURSIVE FileText(_)
FileText(ls) == IF ls = <<>> THEN <<>> ELSE Text(Head(ls)) \o FileText(Tail(ls))

(***************************************************************************)
(* What one fscanf call can find in the stream: the unread characters      *)
(* ahead, followed by as many further lines of the file as the call reads  *)
(* (it reads on only while it has not met the character that ends the      *)
(* conversion), or by the end of the file (final).  k counts the lines     *)
(* taken from the file.                                                    *)
(***************************************************************************)
RECURSIVE Inputs(_, _)
Inputs(buf, budget) ==
    LET r == Fscanf(buf)
    IN  IF ~r.starved
        THEN {[in |-> buf, k |-> 0, final |-> FALSE, scan |-> r]}
        ELSE {[in |-> buf, k |-> 0, final |-> TRUE, scan |-> r]}
             \cup (IF budget = 0 THEN {}
                   ELSE UNION {{[x EXCEPT !.k = @ + 1] : x \in Inputs(buf \o Text(l), budget - 1)} :
                               l \in TraceLines})

Rest(in, used) == SubSeq(in, used + 1, Len(in))

(***************************************************************************)
(* The command line.  argv is argv[1], argv[2], ... of main; every element *)
(* is a string.  getopt(argc, argv, "s:E:b:t:") returns the letter of an   *)
(* option of the option string together with its argument (the next        *)
(* element, whatever it is), '?' for an option that is not in the option   *)
(* string or whose argument is missing, and -1 after the last element.     *)
(* (char is signed in the build, so that c != -1 ends the loop.)           *)
(***************************************************************************)
Required == {"-s", "-E", "-b", "-t"}

IsOption(w) == w \in Required \cup {"-x"}

Digit(n) == HexChars[n + 1]

\* atoi of an option argument: the number a decimal digit stands for, 0 for any other word
atoi(w) == IF IsDigit(w) THEN HexValue(w) ELSE 0

\* what one call of getopt returns: the option c, optarg and the new optind
\* (a word that is no option is passed over: GNU getopt moves it behind the options)
RECURSIVE getopt(_, _)
getopt(av, ind) ==
    IF ind > Len(av) THEN [c |-> "-1", optarg |-> "", optind |-> ind]
    ELSE IF av[ind] \in Required /\ ind < Len(av)
    THEN [c |-> av[ind], optarg |-> av[ind + 1], optind |-> ind + 2]
    ELSE IF IsOption(av[ind])
    THEN [c |-> "?", optarg |-> "", optind |-> ind + 1]
    ELSE getopt(av, ind + 1)

\* fopen(trace_file, "r"): the files that can be opened are those of Readable
Readable == {"trace"}

fopen(name) == IF name \in Readable THEN name ELSE "NULL"

\* lines 53-63 with both failures returning the same value
config_error_same(sf, Ef, bf, tf, err) ==
    IF sf = 0 \/ Ef = 0 \/ bf = 0 \/ tf = 0 THEN {-1}
    ELSE IF err # 0 THEN {-1}
    ELSE {}

\* lines 53-63: the value main returns before the cache is built, if it does
config_error(sf, Ef, bf, tf, err) ==
    IF sf = 0 \/ Ef = 0 \/ bf = 0 \/ tf = 0 THEN {-1}
    ELSE IF err # 0 THEN {-2}
    ELSE {}

\* the command lines of the runs: each of -s, -E, -b, -t given once with an
\* argument or left out, an option that is not in the option string before
\* or after them, or a last -t without its argument
Words(opt, args) == {<<>>} \cup {<<opt, a>> : a \in args}

CommandLines ==
    {front \o ws \o wE \o wb \o wt \o back :
        front \in {<<>>, <<"-x">>},
        ws \in Words("-s", {Digit(n) : n \in 0..MaxS}),
        wE \in Words("-E", {Digit(n) : n \in 1..MaxE}),
        wb \in Words("-b", {Digit(n) : n \in 0..MaxB}),
        wt \in Words("-t", {"trace", "missing"}),
        back \in {<<>>, <<"-x">>, <<"-t">>}}

(***************************************************************************)
(* The state of main when the replay loop is entered.                      *)
(***************************************************************************)
Counters(st) == <<st.hits, st.misses, st.evictions>>

State0(c) == [cache |-> c, hits |-> 0, misses |-> 0, evictions |-> 0]

\* the replay loop run to its end on the unread input buf, the file ending there
\* (the state and the input of the next iteration are bound as values)
RECURSIVE Replay(_, _, _)
Replay(st, e, buf) ==
    LET r == Fscanf(buf)
    IN  IF r.ret # 2 THEN st
        ELSE CHOOSE end \in
                {Replay(st2, e, buf2) :
                    st2 \in {IF r.access_type = "I" THEN st
                             ELSE Access(st, e, r.access_type, r.address)},
                    buf2 \in {Rest(buf, r.used)}} : TRUE

\* the runs of main do not call transpose_submit
NoTranspose ==
    /\ M = 0 /\ N = 0
    /\ A = <<>> /\ B = <<>>
    /\ frame = <<>>
    /\ tpc = "idle"

InitRun ==
    /\ NoTranspose
    /\ s \in 0..MaxS
    /\ b \in 0..MaxB
    /\ assoc \in 1..MaxE
    /\ \E garbage \in {0, MaxTag} : cache = InitialCache(num_sets, assoc, garbage)
    /\ argv = <<"-s", Digit(s), "-E", Digit(assoc), "-b", Digit(b), "-t", "trace">>
    /\ optind = Len(argv) + 1
    /\ sflag = 1 /\ Eflag = 1 /\ bflag = 1 /\ tflag = 1 /\ err_flag = 0
    /\ sname = Digit(s) /\ Ename = Digit(assoc) /\ bname = Digit(b)
    /\ trace_file = "trace"
    /\ tracefp = fopen(trace_file)
    /\ ret = {}
    /\ hits = 0 /\ misses = 0 /\ evictions = 0
    /\ access_type = NoChar /\ address = 0
    /\ pc = "loop"
    /\ outcome = "none" /\ evicted = {}
    /\ order = [i \in 0..(num_sets - 1) |-> <<>>]
    /\ mtf = [i \in 0..(num_sets - 1) |-> <<>>]
    /\ nData = 0 /\ nModify = 0
    /\ cycle = <<>> /\ cyclic = TRUE

\* the trace file is any file of at most MaxLines lines, read as the run goes
Init ==
    /\ InitRun
    /\ ahead = <<>>
    /\ more = MaxLines
    /\ expected = <<>>

\* the trace file is one of the files of at most MaxFileLines lines of kind I, L, S, M
WellFormed(l) == l.shape = "ok" /\ l.kind \in Kinds

Files ==
    UNION {[1..n -> {l \in TraceLines : l.kind \in Kinds}] : n \in 0..MaxFileLines}

InitFile ==
    /\ InitRun
    /\ \E file \in Files :
        /\ ahead = FileText(file)
        /\ expected = Counters(Replay(State0(cache), assoc, FileText(SelectSeq(file, WellFormed))))
    /\ more = 0

\* the trace file is one of the files of one or two 'I' or 'L' lines whose
\* addresses are the least and the greatest of each sign of the long long
\* and one more of each
WideAddresses ==
    {0, 5, Shl1(LongLongBits - 1) - 1,
     Shl1(LongLongBits - 1), Shl1(LongLongBits - 1) + 5, Shl1(LongLongBits) - 1}

WideFiles ==
    UNION {[1..n -> {TraceLine("ok", k, a) : k \in {"I", "L"}, a \in WideAddresses}] :
           n \in 1..MaxFileLines}

InitDecode ==
    /\ InitRun
    /\ \E file \in WideFiles : ahead = FileText(file)
    /\ expected = <<>>
    /\ more = 0

(***************************************************************************)
(* History of the data accesses.                                           *)
(***************************************************************************)
Range(f) == {f[x] : x \in DOMAIN f}

Touch(seq, t) == <<t>> \o SelectSeq(seq, LAMBDA x : x # t)

\* the reference model of a set: an ordered list of at most e tags.  A tag in
\* the list is moved to the front (hit); another tag is pushed at the front
\* (miss), after the last element has been dropped if the list holds e tags
\* (miss with eviction of that tag).
RefAccess(list, e, t) ==
    IF t \in Range(list)
    THEN [list |-> Touch(list, t), outcome |-> "hit", victim |-> {}]
    ELSE IF Len(list) < e
    THEN [list |-> <<t>> \o list, outcome |-> "miss", victim |-> {}]
    ELSE [list |-> <<t>> \o SubSeq(list, 1, e - 1), outcome |-> "miss eviction",
          victim |-> {list[e]}]

History(type, a) ==
    LET i == set_index(a)
        t == tag(a)
        entry == <<i, t>>
        next == IF Len(cycle) < assoc + 1
                THEN entry \notin Range(cycle) /\ (cycle = <<>> \/ cycle[1][1] = i)
                ELSE entry = cycle[(nData % (assoc + 1)) + 1]
    IN  /\ order' = [order EXCEPT ![i] = Touch(@, t)]
        /\ mtf' = [mtf EXCEPT ![i] = RefAccess(@, assoc, t).list]
        /\ nData' = nData + 1
        /\ nModify' = nModify + (IF type = "M" THEN 1 ELSE 0)
        /\ cyclic' = (cyclic /\ next)
        /\ cycle' = IF ~(cyclic /\ next) THEN <<>>
                    ELSE IF Len(cycle) < assoc + 1 THEN Append(cycle, entry) ELSE cycle

(***************************************************************************)
(* The replay loop: one action is one fscanf call and what follows it.     *)
(***************************************************************************)
Read(x, r) ==
    /\ ahead' = Rest(x.in, r.used)
    /\ more' = IF x.final THEN 0 ELSE more - x.k
    /\ access_type' = IF r.ret >= 1 THEN r.access_type ELSE access_type
    /\ address' = IF r.ret = 2 THEN r.address ELSE address

\* lines 99-129: the data reference just read is looked up, counted and placed
LoopBody(x) ==
    LET r == x.scan
        st == Access([cache |-> cache, hits |-> hits, misses |-> misses,
                      evictions |-> evictions], assoc, r.access_type, r.address)
    IN  /\ Read(x, r)
        /\ IF st.failed
           THEN /\ pc' = "abort"
                /\ outcome' = "none"
                /\ evicted' = {}
                /\ UNCHANGED <<cache, hits, misses, evictions, order, mtf, nData,
                               nModify, cycle, cyclic>>
           ELSE /\ pc' = pc
                /\ cache' = st.cache
                /\ hits' = st.hits
                /\ misses' = st.misses
                /\ evictions' = st.evictions
                /\ outcome' = st.printed
                /\ evicted' = st.victim
                /\ History(r.access_type, r.address)
        /\ UNCHANGED <<s, b, assoc, expected, ret>>

\* an 'I' line handled like a data reference (the continue left out)
SkipInstruction_fallthrough(x) ==
    /\ x.scan.ret = 2
    /\ x.scan.access_type = "I"
    /\ LoopBody(x)

\* fscanf returns 2 and access_type is 'I': continue
SkipInstruction(x) ==
    /\ x.scan.ret = 2
    /\ x.scan.access_type = "I"
    /\ Read(x, x.scan)
    /\ outcome' = "none"
    /\ evicted' = {}
    /\ UNCHANGED <<s, b, assoc, cache, hits, misses, evictions, pc, order, mtf,
                   nData, nModify, cycle, cyclic, expected, ret>>

\* fscanf returns 2 and access_type is not 'I': the rest of the loop body
DataAccess(x) ==
    /\ x.scan.ret = 2
    /\ x.scan.access_type # "I"
    /\ LoopBody(x)

\* fscanf returns something else than 2: the loop ends and the summary is printed
EndOfTrace(x) ==
    /\ x.scan.ret # 2
    /\ Read(x, x.scan)
    /\ pc' = "done"
    /\ ret' = {0}
    /\ outcome' = "none"
    /\ evicted' = {}
    /\ UNCHANGED <<s, b, assoc, cache, hits, misses, evictions, order, mtf, nData,
                   nModify, cycle, cyclic, expected>>

Iteration ==
    /\ pc = "loop"
    /\ tracefp # "NULL"
    /\ \E x \in Inputs(ahead, more) :
        SkipInstruction(x) \/ DataAccess(x) \/ EndOfTrace(x)
    /\ UNCHANGED <<startup, transpose>>

Next == Iteration

Spec == Init /\ [][Next]_vars

SpecFile == InitFile /\ [][Next]_vars

SpecDecode == InitDecode /\ [][Next]_vars

(***************************************************************************)
(* main from its first statement.                                          *)
(***************************************************************************)
data == <<s, b, assoc, cache, hits, misses, evictions, access_type, address,
          ahead, more, outcome, evicted, order, mtf, nData, nModify, cycle,
          cyclic, expected>>

InitMain ==
    /\ NoTranspose
    /\ argv \in CommandLines
    /\ optind = 1
    /\ sflag = 0 /\ Eflag = 0 /\ bflag = 0 /\ tflag = 0 /\ err_flag = 0
    /\ sname = "" /\ Ename = "" /\ bname = "" /\ trace_file = ""
    /\ tracefp = "NULL"
    /\ ret = {}
    /\ s = 0 /\ b = 0 /\ assoc = 0
    /\ cache = <<>>
    /\ hits = 0 /\ misses = 0 /\ evictions = 0
    /\ access_type = NoChar /\ address = 0
    /\ ahead = <<>> /\ more = 0
    /\ pc = "getopt"
    /\ outcome = "none" /\ evicted = {}
    /\ order = <<>>
    /\ mtf = <<>>
    /\ nData = 0 /\ nModify = 0
    /\ cycle = <<>> /\ cyclic = TRUE
    /\ expected = <<>>

\* lines 29-51: one call of getopt and the switch on what it returns
Getopt ==
    LET g == getopt(argv, optind)
    IN  /\ pc = "getopt"
        /\ optind' = g.optind
        /\ pc' = IF g.c = "-1" THEN "check" ELSE pc
        /\ sflag' = IF g.c = "-s" THEN 1 ELSE sflag
        /\ sname' = IF g.c = "-s" THEN g.optarg ELSE sname
        /\ Eflag' = IF g.c = "-E" THEN 1 ELSE Eflag
        /\ Ename' = IF g.c = "-E" THEN g.optarg ELSE Ename
        /\ bflag' = IF g.c = "-b" THEN 1 ELSE bflag
        /\ bname' = IF g.c = "-b" THEN g.optarg ELSE bname
        /\ tflag' = IF g.c = "-t" THEN 1 ELSE tflag
        /\ trace_file' = IF g.c = "-t" THEN g.optarg ELSE trace_file
        /\ err_flag' = IF g.c = "?" THEN 1 ELSE err_flag
        /\ UNCHANGED <<data, argv, tracefp, ret, transpose>>

\* lines 53-63: a required parameter missing returns -1, an unknown parameter -2
CheckFlags ==
    LET e == config_error(sflag, Eflag, bflag, tflag, err_flag)
    IN  /\ pc = "check"
        /\ ret' = e
        /\ pc' = IF e # {} THEN "exit" ELSE "build"
        /\ UNCHANGED <<data, startup, transpose>>

\* lines 65-85: the configuration is converted and the cache built
BuildCache ==
    /\ pc = "build"
    /\ s' = atoi(sname)
    /\ b' = atoi(bname)
    /\ assoc' = atoi(Ename)
    /\ \E garbage \in {0, MaxTag} :
            cache' = InitialCache(Shl1(atoi(sname)), atoi(Ename), garbage)
    /\ order' = [i \in 0..(Shl1(atoi(sname)) - 1) |-> <<>>]
    /\ mtf' = [i \in 0..(Shl1(atoi(sname)) - 1) |-> <<>>]
    /\ pc' = "open"
    /\ UNCHANGED <<hits, misses, evictions, access_type, address, ahead, more,
                   outcome, evicted, nData, nModify, cycle, cyclic, expected,
                   startup, ret, transpose>>

\* lines 87-91: fopen, whose result is not tested
Fopen ==
    /\ pc = "open"
    /\ tracefp' = fopen(trace_file)
    /\ ahead' = <<>>
    /\ more' = IF fopen(trace_file) = "NULL" THEN 0 ELSE MainLines
    /\ hits' = 0 /\ misses' = 0 /\ evictions' = 0
    /\ pc' = "loop"
    /\ UNCHANGED <<s, b, assoc, cache, access_type, address, outcome, evicted,
                   order, mtf, nData, nModify, cycle, cyclic, expected, argv, optind,
                   sflag, Eflag, bflag, tflag, err_flag, sname, Ename, bname,
                   trace_file, ret, transpose>>

\* line 93 with tracefp a null pointer: the behaviour of fscanf is undefined.
\* The C library either dereferences the pointer and the process is killed
\* (SIGSEGV), or rejects it and returns EOF, so that the loop ends, the
\* summary of the zero counters is printed and main returns 0.
FscanfNull ==
    /\ pc = "loop"
    /\ tracefp = "NULL"
    /\ \/ pc' = "crash" /\ ret' = ret
       \/ pc' = "done" /\ ret' = {0}
    /\ UNCHANGED <<data, startup, transpose>>

NextMain == Getopt \/ CheckFlags \/ BuildCache \/ Fopen \/ FscanfNull \/ Iteration

SpecMain == InitMain /\ [][NextMain]_vars

(***************************************************************************)
(* trans.c.  A is int A[N][M] and B is int B[M][N]; the model indexes both *)
(* from 0.  One action of transpose_submit is one test of a loop and what  *)
(* follows it up to the next test.                                         *)
(***************************************************************************)
MaxM == 3          \* the matrices have 1..MaxM columns, or Wide, or are Block x Block
MaxN == 2          \* the matrices have 1..MaxN rows, or are Block x Block
Block == 8         \* ints in a cache block: sets_per_row = M/8
Sets32 == 32       \* num_sets of transpose_submit
Odd == 18          \* block_dim of the matrices that are not square
Wide == 64         \* the M whose second diagonals are handled apart
Skew == 4          \* the distance of those diagonals from the main one

min(x, y) == IF x < y THEN x ELSE y

\* trans: the baseline, which assigns every element of B
trans(m, n, a) == [j \in 0..(m - 1) |-> [i \in 0..(n - 1) |-> a[i][j]]]

is_transpose(m, n, a, bb) ==
    IF \E i \in 0..(n - 1) : \E j \in 0..(m - 1) : a[i][j] # bb[j][i] THEN 0 ELSE 1

\* line 71: the element is copied at once (otherwise after the row of the block)
direct(m, ib, jb) ==
    (ib # jb) /\ ((m # Wide) \/ ((ib # jb - Skew) /\ (ib # jb + Skew)))

\* the arguments of the calls: the sizes, a matrix A of pairwise different
\* elements or of equal ones, and a B holding the same number everywhere
Sizes ==
    (((1..MaxM) \cup {Wide}) \X (1..MaxN)) \cup {<<Block, Block>>}

Matrices(m, n) ==
    {[i \in 0..(n - 1) |-> [j \in 0..(m - 1) |-> 1 + (i * m) + j]],
     [i \in 0..(n - 1) |-> [j \in 0..(m - 1) |-> 1]]}

NoMain ==
    /\ argv = <<>> /\ optind = 1
    /\ sflag = 0 /\ Eflag = 0 /\ bflag = 0 /\ tflag = 0 /\ err_flag = 0
    /\ sname = "" /\ Ename = "" /\ bname = "" /\ trace_file = ""
    /\ tracefp = "NULL"
    /\ ret = {}
    /\ s = 0 /\ b = 0 /\ assoc = 0
    /\ cache = <<>>
    /\ hits = 0 /\ misses = 0 /\ evictions = 0
    /\ access_type = NoChar /\ address = 0
    /\ ahead = <<>> /\ more = 0
    /\ pc = "idle"
    /\ outcome = "none" /\ evicted = {}
    /\ order = <<>>
    /\ mtf = <<>>
    /\ nData = 0 /\ nModify = 0
    /\ cycle = <<>> /\ cyclic = TRUE
    /\ expected = <<>>

InitTrans ==
    /\ NoMain
    /\ \E size \in Sizes : M = size[1] /\ N = size[2]
    /\ A \in Matrices(M, N)
    /\ \E fill \in {0, 1} : B = [j \in 0..(M - 1) |-> [i \in 0..(N - 1) |-> fill]]
    /\ frame = [block_dim |-> 0, i |-> 0, j |-> 0, ib |-> 0, jb |-> 0,
                idx1 |-> 0, idx2 |-> 0, diag_flag |-> 0]
    /\ tpc = "enter"

main == <<s, b, assoc, cache, hits, misses, evictions, access_type, address,
          ahead, more, pc, outcome, evicted, order, mtf, nData, nModify,
          cycle, cyclic, expected, startup, ret>>

\* lines 57-61: block_dim and i = 0.  M / 8 is 0 for M < 8, and for a square
\* matrix num_sets / 0 is then undefined: the division traps (SIGFPE).
Enter ==
    /\ tpc = "enter"
    /\ IF M = N /\ M \div Block = 0
       THEN tpc' = "fault" /\ frame' = frame
       ELSE /\ frame' = [frame EXCEPT
                            !.block_dim = IF M = N THEN Sets32 \div (M \div Block) ELSE Odd,
                            !.i = 0, !.diag_flag = 0]
            /\ tpc' = "for_i"
    /\ UNCHANGED <<main, M, N, A, B>>

\* line 61: i < N
ForI ==
    /\ tpc = "for_i"
    /\ IF frame.i < N
       THEN frame' = [frame EXCEPT !.j = 0] /\ tpc' = "for_j"
       ELSE frame' = frame /\ tpc' = "return"
    /\ UNCHANGED <<main, M, N, A, B>>

\* line 62: j < M, and i += block_dim at the end of the loop
ForJ ==
    /\ tpc = "for_j"
    /\ IF frame.j < M
       THEN frame' = [frame EXCEPT !.ib = frame.i] /\ tpc' = "for_ib"
       ELSE frame' = [frame EXCEPT !.i = @ + frame.block_dim] /\ tpc' = "for_i"
    /\ UNCHANGED <<main, M, N, A, B>>

\* line 65: ib < min(i+block_dim, N), and j += block_dim at the end of the loop
ForIb ==
    /\ tpc = "for_ib"
    /\ IF frame.ib < min(frame.i + frame.block_dim, N)
       THEN frame' = [frame EXCEPT !.jb = frame.j] /\ tpc' = "for_jb"
       ELSE frame' = [frame EXCEPT !.j = @ + frame.block_dim] /\ tpc' = "for_j"
    /\ UNCHANGED <<main, M, N, A, B>>

\* lines 66-78: jb < min(j+block_dim, M) and the body of the innermost loop
ForJb ==
    /\ tpc = "for_jb"
    /\ IF frame.jb < min(frame.j + frame.block_dim, M)
       THEN /\ tpc' = tpc
            /\ IF direct(M, frame.ib, frame.jb)
               THEN /\ B' = [B EXCEPT ![frame.jb][frame.ib] = A[frame.ib][frame.jb]]
                    /\ frame' = [frame EXCEPT !.jb = @ + 1]
               ELSE /\ B' = B
                    /\ frame' = [frame EXCEPT !.diag_flag = 1, !.idx1 = frame.ib,
                                              !.idx2 = frame.jb, !.jb = @ + 1]
       ELSE tpc' = "diag" /\ frame' = frame /\ B' = B
    /\ UNCHANGED <<main, M, N, A>>

\* lines 79-83: the element kept back is copied, and ib++
Diag ==
    /\ tpc = "diag"
    /\ IF frame.diag_flag # 0
       THEN /\ B' = [B EXCEPT ![frame.idx2][frame.idx1] = A[frame.idx1][frame.idx2]]
            /\ frame' = [frame EXCEPT !.diag_flag = 0, !.ib = @ + 1]
       ELSE /\ B' = B
            /\ frame' = [frame EXCEPT !.ib = @ + 1]
    /\ tpc' = "for_ib"
    /\ UNCHANGED <<main, M, N, A>>

NextTrans == Enter \/ ForI \/ ForJ \/ ForIb \/ ForJb \/ Diag

SpecTrans == InitTrans /\ [][NextTrans]_vars

(***************************************************************************)
(* Properties.                                                             *)
(***************************************************************************)
Lines == 0..(assoc - 1)
Sets == 0..(num_sets - 1)

\* a step of the loop that looked up a data reference
Looked == nData' = nData + 1

\* the position of tag t in the recency order of a set (1 = most recently accessed)
Position(seq, t) == CHOOSE k \in 1..Len(seq) : seq[k] = t

RECURSIVE SumLen(_, _)
SumLen(f, S) ==
    IF S = {} THEN 0
    ELSE LET i == CHOOSE x \in S : TRUE IN Len(f[i]) + SumLen(f, S \ {i})

\* C1: in every reachable state the lru_cntr values of the lines of every set
\* are exactly 0..E-1, each once.
C1_RanksArePermutation ==
    \A i \in Sets :
        /\ DOMAIN cache[i] = Lines
        /\ {cache[i][j].lru_cntr : j \in Lines} = 0..(assoc - 1)
        /\ \A j, k \in Lines : cache[i][j].lru_cntr = cache[i][k].lru_cntr => j = k

\* a set of two lines whose counters have been swapped by the accesses, after an eviction
C1_Witness ==
    /\ assoc = 2
    /\ evictions > 0
    /\ \E i \in Sets : cache[i][0].lru_cntr = 1 /\ cache[i][1].lru_cntr = 0

\* C2: a data access to tag t of set S hits iff a valid line of S holds t;
\* otherwise, if S has an invalid line, it is a miss without eviction and t is
\* placed in the lowest invalid line, which becomes valid; otherwise it is a
\* miss with eviction.
C2_Outcome ==
    [][Looked =>
        LET i == set_index(address')
            t == tag(address')
            S == cache[i]
            present == \E j \in Lines : S[j].valid # 0 /\ S[j].tag = t
            free == {j \in Lines : S[j].valid = 0}
        IN  /\ (outcome' = "hit") <=> present
            /\ (~present /\ free # {}) =>
                    /\ outcome' = "miss"
                    /\ misses' = misses + 1
                    /\ evictions' = evictions
                    /\ \E j \in free :
                        /\ \A k \in free : j <= k
                        /\ cache'[i][j].tag = t
                        /\ cache'[i][j].valid = 1
                        /\ \A k \in Lines \ {j} :
                              cache'[i][k].tag = S[k].tag /\ cache'[i][k].valid = S[k].valid
            /\ (~present /\ free = {}) =>
                    /\ outcome' = "miss eviction"
                    /\ misses' = misses + 1
                    /\ evictions' = evictions + 1
    ]_vars

\* a miss on a tag that an invalid line of the set still holds as garbage
C2_Witness ==
    /\ outcome = "miss"
    /\ \E j \in Lines :
        LET l == cache[set_index(address)][j] IN l.valid = 0 /\ l.tag = tag(address)

\* C3: the tag overwritten by an eviction is, among the tags resident in the
\* set, the one whose most recent access is the oldest.
C3_EvictsLeastRecent ==
    [][evictions' = evictions + 1 =>
        LET i == set_index(address')
            resident == {cache[i][j].tag : j \in {k \in Lines : cache[i][k].valid # 0}}
        IN  /\ resident \subseteq Range(order[i])
            /\ \E v \in resident :
                /\ evicted' = {v}
                /\ \A u \in resident : Position(order[i], u) <= Position(order[i], v)
    ]_vars

\* an eviction in a set of two lines after a hit has reordered it
C3_Witness ==
    /\ outcome = "miss eviction"
    /\ assoc > 1
    /\ hits > nModify

\* C4: after any prefix of the trace, hits + misses is the number of
\* non-instruction entries processed plus the number of Modify entries processed.
C4_HitsPlusMisses == hits + misses = nData + nModify

C4_Witness == nModify > 0 /\ nData > nModify /\ hits > nModify /\ evictions > 0

\* C5: a Modify entry changes the cache and the counters as a Load of the same
\* address would in that state, and adds exactly one more hit; one "M 0" on an
\* empty cache gives hits = 1, misses = 1, evictions = 0 in every configuration.
C5_ModifyIsLoadPlusHit ==
    /\ [][(Looked /\ access_type' = "M") =>
            LET load == Access([cache |-> cache, hits |-> hits, misses |-> misses,
                                evictions |-> evictions], assoc, "L", address')
            IN  /\ cache' = load.cache
                /\ hits' = load.hits + 1
                /\ misses' = load.misses
                /\ evictions' = load.evictions
                /\ hits' + misses' = hits + misses + 2
       ]_vars
    /\ []((nData = 1 /\ access_type = "M" /\ address = 0) =>
            (hits = 1 /\ misses = 1 /\ evictions = 0))

\* a Modify whose read half evicts
C5_Witness == access_type = "M" /\ outcome = "miss eviction" /\ nModify = 1

C7_Capacity ==
    ((\A i \in Sets : Len(order[i]) <= assoc) /\ nData = SumLen(order, Sets))
        => (evictions = 0 /\ misses = nData)

\* every line of a cache of two sets of two lines filled by distinct tags
C7_Witness ==
    /\ assoc = 2 /\ num_sets = 2
    /\ \A i \in Sets : Len(order[i]) = assoc
    /\ nData = SumLen(order, Sets)

\* C8 (as amended): while the accesses cycle in a fixed order through E+1
\* distinct tags of one set, no lookup hits (the hit counter holds only the one
\* hit each Modify entry adds for its write half), every access is a miss, and
\* from access E+1 on every access is a miss with eviction.
C8_Thrashing ==
    cyclic =>
        /\ hits = nModify
        /\ misses = nData
        /\ evictions = (IF nData > assoc THEN nData - assoc ELSE 0)
        /\ (nData > assoc /\ outcome # "none") => outcome = "miss eviction"

\* C8 as stated: such a trace yields no hit at all, and after the first full
\* cycle every access is a miss with eviction.
C8_NoHitAtAll ==
    (cyclic /\ Len(cycle) = assoc + 1) =>
        /\ hits = 0
        /\ (nData > assoc + 1 /\ outcome # "none") => outcome = "miss eviction"

\* the first access of the second round of a cycle through three tags
C8_Witness == cyclic /\ assoc = 2 /\ Len(cycle) = assoc + 1 /\ nData = assoc + 2

\* C9: malformed lines are skipped and the run goes on, so the final counters
\* are those of the trace without its malformed lines.
C9_MalformedSkipped == (pc = "done") => (<<hits, misses, evictions>> = expected)

\* C10: an entry whose access-kind letter is none of I, L, S, M changes no
\* counter and no cache line.
C10_UnknownKindIgnored ==
    [][access_type' = "X" => UNCHANGED <<cache, hits, misses, evictions>>]_vars

\* C15: the assertion of the full-set branch of cache_lookup never fails: on
\* a miss in a set whose lines are all valid the largest lru_cntr is E-1, and
\* the line replaced is the one that holds it.
C15_AssertHolds ==
    /\ [](pc # "abort")
    /\ [][(Looked /\ outcome' = "miss eviction") =>
            LET S == cache[set_index(address')]
                v == lru_line(S)
            IN  /\ \A j \in Lines : S[j].valid # 0
                /\ \A j \in Lines : S[j].lru_cntr <= assoc - 1
                /\ S[v].lru_cntr = assoc - 1
                /\ evicted' = {S[v].tag}
                /\ cache'[set_index(address')][v].tag = tag(address')
       ]_vars

\* the second eviction of a run in a cache of two lines per set
C15_Witness == outcome = "miss eviction" /\ assoc = 2 /\ evictions = 2

C17_Frame ==
    [][Looked =>
        LET i == set_index(address')
            t == tag(address')
            same(k, j) == /\ cache'[k][j].tag = cache[k][j].tag
                          /\ cache'[k][j].valid = cache[k][j].valid
        IN  /\ \A k \in Sets \ {i} : cache'[k] = cache[k]
            /\ (outcome' = "hit") => \A j \in Lines : same(i, j)
            /\ (outcome' # "hit") =>
                    \E j \in Lines :
                        /\ cache'[i][j].tag = t /\ cache'[i][j].valid = 1
                        /\ cache[i][j].valid = 0 \/ cache[i][j].tag # t
                        /\ \A k \in Lines \ {j} : same(i, k)
    ]_vars

\* a miss in one set of two while the other set holds valid lines
C17_Witness ==
    /\ num_sets = 2 /\ assoc = 2 /\ outcome # "hit" /\ nData = 3
    /\ \E k \in Sets \ {set_index(address)} : cache[k][0].valid # 0

\* the tags of the valid lines of a set, by increasing lru_cntr
ByRank(set) ==
    LET V == {j \in DOMAIN set : set[j].valid # 0}
        pos(j) == 1 + Cardinality({k \in V : set[k].lru_cntr < set[j].lru_cntr})
    IN  [n \in 1..Cardinality(V) |-> set[CHOOSE j \in V : pos(j) = n].tag]

\* C18: the reference model with a move-to-front list of at most E tags per
\* set gives, for every access of the trace, the same outcome and the same
\* evicted tag as the simulator, and its list is always the tags of the valid
\* lines of the set sorted by lru_cntr.
C18_MoveToFront ==
    /\ [][Looked =>
            LET r == RefAccess(mtf[set_index(address')], assoc, tag(address'))
            IN  /\ outcome' = r.outcome
                /\ evicted' = r.victim
       ]_vars
    /\ [](\A i \in Sets : mtf[i] = ByRank(cache[i]))

\* an eviction after a hit has changed the order of a list of two tags
C18_Witness ==
    /\ assoc = 2 /\ outcome = "miss eviction" /\ hits = 1 /\ nModify = 0
    /\ Len(mtf[set_index(address)]) = 2

\* the number of valid lines of the sets S
RECURSIVE ValidLines(_)
ValidLines(S) ==
    IF S = {} THEN 0
    ELSE LET i == CHOOSE x \in S : TRUE
         IN  Cardinality({j \in Lines : cache[i][j].valid # 0}) + ValidLines(S \ {i})

\* C19: after any prefix of the trace misses - evictions is the number of
\* valid lines of the cache (so evictions <= misses and misses - evictions <=
\* E * 2^s), and a valid line never becomes invalid.
C19_ValidLines ==
    /\ [](/\ misses - evictions = ValidLines(Sets)
          /\ evictions <= misses
          /\ misses - evictions <= assoc * num_sets)
    /\ [][\A i \in Sets : \A j \in Lines :
            cache[i][j].valid # 0 => cache'[i][j].valid # 0]_vars

\* an eviction in a cache of two lines, both valid
C19_Witness == assoc = 2 /\ num_sets = 1 /\ misses = 3 /\ evictions = 1 /\ hits = 0

\* C20: no two valid lines of a set hold the same tag.
C20_NoDuplicateTag ==
    \A i \in Sets : \A j, k \in Lines :
        (j # k /\ cache[i][j].valid # 0 /\ cache[i][k].valid # 0)
            => cache[i][j].tag # cache[i][k].tag

\* a set of two valid lines one of which has been hit twice
C20_Witness ==
    /\ assoc = 2 /\ hits = 2 /\ nModify = 0 /\ misses = 2
    /\ \E i \in Sets : cache[i][0].valid # 0 /\ cache[i][1].valid # 0

(***************************************************************************)
(* Properties of main from its first statement (SpecMain).                 *)
(***************************************************************************)
\* a required option does not occur in the command line with an argument behind it
Missing == \E o \in Required : ~\E k \in 1..(Len(argv) - 1) : argv[k] = o

\* the command line holds an option that is not in the option string
Unrecognized == \E k \in 1..Len(argv) : IsOption(argv[k]) /\ argv[k] \notin Required

Ended == pc \in {"done", "exit", "crash", "abort"}

\* C11: a run whose trace file cannot be opened ends with main returning an
\* error value to the caller; no trace entry is processed and no counters are
\* printed.
C11_TraceSourceError ==
    (Ended /\ ~Missing /\ ~Unrecognized /\ tflag = 1 /\ fopen(trace_file) = "NULL")
        => (pc = "exit" /\ ret # {} /\ 0 \notin ret /\ nData = 0)

\* C12: a missing required parameter and an unrecognized parameter each end
\* the run before the cache is built and before fscanf is called, the first
\* with the return value -1 and the second with -2, and main returns -1 only
\* when a required parameter is missing.
C12_ConfigErrors ==
    /\ (Missing \/ Unrecognized) => pc \in {"getopt", "check", "exit"}
    /\ (pc = "exit") =>
            /\ cache = <<>>
            /\ tracefp = "NULL"
            /\ access_type = NoChar /\ nData = 0
            /\ hits = 0 /\ misses = 0 /\ evictions = 0
            /\ Missing => ret = {-1}
            /\ (Unrecognized /\ ~Missing) => ret = {-2}
            /\ (ret = {-1}) => Missing
            /\ ret \in {{-1}, {-2}}

\* main has returned -2 for a command line with all four parameters and -x
C12_Witness == pc = "exit" /\ ret = {-2} /\ Unrecognized /\ ~Missing /\ Len(argv) = 9

(***************************************************************************)
(* Properties of the address decoding (SpecDecode).                        *)
(***************************************************************************)
\* the unsigned number whose bits the long long x holds
Unsigned(x) == IF x < 0 THEN x + Shl1(LongLongBits) ELSE x

\* C13: for every address and every (s, b), set_index and tag are those of
\* the unsigned address: set_index = (address >> b) & ((1 << s) - 1), in
\* 0 .. 2^s - 1, and the bits of tag are those of address >> (s + b) with a
\* logical shift, also for the addresses whose top bit is set.
C13_DecodeUnsigned ==
    [][Looked =>
        LET u == Unsigned(address')
            i == set_index(address')
        IN  /\ i = (u \div Shl1(b)) % Shl1(s)
            /\ i \in 0..(Shl1(s) - 1)
            /\ Unsigned(tag(address')) = u \div Shl1(s + b)
            /\ \E j \in DOMAIN cache'[i] :
                  /\ cache'[i][j].valid = 1
                  /\ Unsigned(cache'[i][j].tag) = u \div Shl1(s + b)
    ]_vars

(***************************************************************************)
(* Properties of transpose_submit (SpecTrans).                             *)
(***************************************************************************)
\* C14: for every M >= 1, N >= 1 and every N x M matrix A, transpose_submit
\* returns, and with B the transpose of A: B[j][i] = A[i][j] for all i < N and
\* j < M, the result of trans, which is_transpose accepts.
C14_Transposes ==
    /\ tpc # "fault"
    /\ (tpc = "return") =>
            /\ \A i \in 0..(N - 1) : \A j \in 0..(M - 1) : B[j][i] = A[i][j]
            /\ B = trans(M, N, A)
            /\ is_transpose(M, N, A, B) = 1

=============================================================================
